---- MODULE Spec2Model ----
(***************************************************************************)
(* The oeN agent: the conversation loop of Agent.Run, the dispatcher       *)
(* Agent.executeTool and the six file-system tools, over a small model of  *)
(* the file system the tools act on.                                       *)
(*                                                                         *)
(* A Go string is a sequence of tokens.  A token is one character ("a",    *)
(* "/") or one fixed literal of the source ("OK", "tool not found"), so    *)
(* that file contents and paths can be searched and cut as the code does.  *)
(***************************************************************************)
EXTENDS Integers, Sequences, FiniteSets, TLC

VARIABLES
    conversation,   \* Agent.Run: conversation []anthropic.MessageParam
    readUserInput,  \* Agent.Run: readUserInput
    pc,             \* Agent.Run: position of the loop
    message,        \* Agent.Run: message.Content of the response being processed
    idx,            \* Agent.Run: index of the next content block of message
    toolResults,    \* Agent.Run: toolResults
    fs,             \* the file system below the working directory
    requests,       \* number of calls of runInference so far
    blocks,         \* number of content blocks the model has emitted so far
    dispatched,     \* executeTool calls of the current turn: <<id, handler run>>
    registry,       \* the tool list the dispatcher was given
    tpc,            \* dispatcher harness: "idle" or "returned"
    call,           \* dispatcher harness: the tool_use block dispatched last
    outcome,        \* dispatcher harness: what executeTool did with it
    fs0,            \* dispatcher harness: the file system before that call
    calls           \* dispatcher harness: number of blocks dispatched so far

vars == <<conversation, readUserInput, pc, message, idx, toolResults, fs,
          requests, blocks, dispatched, registry, tpc, call, outcome, fs0, calls>>

loopVars == <<conversation, readUserInput, pc, message, idx, toolResults,
              requests, blocks, dispatched>>

harnessVars == <<tpc, call, outcome, fs0, calls>>

(***************************************************************************)
(* Bounds of the model.                                                    *)
(***************************************************************************)
MaxRequests == 3    \* model requests in one session
MaxBlocks == 3      \* content blocks the model emits in one session
MaxCalls == 2       \* tool_use blocks handed to the dispatcher on its own
MaxLen == 3         \* longest file content kept, in characters

Min(S) == CHOOSE x \in S : \A y \in S : x <= y

(***************************************************************************)
(* Paths.  The kernel resolves a path component by component; empty        *)
(* components (doubled or trailing separators) and "." are skipped.        *)
(***************************************************************************)
Sep == "/"

IndexOf(s, c) ==
    LET hits == {i \in 1..Len(s) : s[i] = c}
    IN IF hits = {} THEN 0 ELSE Min(hits)

LastIndexOf(s, c) ==
    LET hits == {i \in 1..Len(s) : s[i] = c}
    IN IF hits = {} THEN 0 ELSE CHOOSE i \in hits : \A j \in hits : j <= i

RECURSIVE SplitPath(_)
SplitPath(p) ==
    IF p = <<>> THEN <<>>
    ELSE LET i == IndexOf(p, Sep)
             first == IF i = 0 THEN p ELSE SubSeq(p, 1, i - 1)
             rest == IF i = 0 THEN <<>> ELSE SubSeq(p, i + 1, Len(p))
         IN IF first = <<>> \/ first = <<".">>
            THEN SplitPath(rest)
            ELSE <<first>> \o SplitPath(rest)

RECURSIVE JoinPath(_)
JoinPath(k) ==
    IF k = <<>> THEN <<".">>
    ELSE IF Len(k) = 1 THEN k[1]
    ELSE k[1] \o <<Sep>> \o JoinPath(Tail(k))

TrailingSep(p) == p # <<>> /\ p[Len(p)] = Sep

\* path.Clean, for relative paths without ".." elements
Clean(p) == JoinPath(SplitPath(p))

\* path.Dir: everything up to the last separator, cleaned
Dir(p) == Clean(SubSeq(p, 1, LastIndexOf(p, Sep)))

(***************************************************************************)
(* The file system: a function from keys (sequences of components below    *)
(* the working directory, <<>> being the working directory itself) to      *)
(* nodes.                                                                  *)
(***************************************************************************)
DirNode == [dir |-> TRUE, data |-> <<>>]
FileNode(data) == [dir |-> FALSE, data |-> data]

Exists(f, k) == k \in DOMAIN f
IsDir(f, k) == k \in DOMAIN f /\ f[k].dir
Prefix(k, n) == SubSeq(k, 1, n)
IsPrefix(k1, k2) == Len(k1) <= Len(k2) /\ Prefix(k2, Len(k1)) = k1
Children(f, k) == {c \in DOMAIN f : Len(c) = Len(k) + 1 /\ IsPrefix(k, c)}
Put(f, k, node) == [x \in DOMAIN f \cup {k} |-> IF x = k THEN node ELSE f[x]]

NoErr == [errno |-> "nil", msg |-> <<>>]
\* *os.PathError: "<op> <path>: <errno text>"
PathError(op, p, errno) ==
    [errno |-> errno, msg |-> <<op, " ">> \o p \o <<": ", errno>>]
\* errors.New / fmt.Errorf without a wrapped error
NewError(text) == [errno |-> "", msg |-> <<text>>]
\* fmt.Errorf("<text>: %w", err)
Wrap(text, err) == [errno |-> err.errno, msg |-> <<text>> \o err.msg]
\* os.IsNotExist
IsNotExist(err) == err.errno = "ENOENT"

\* the path without its trailing separators
RECURSIVE StripSeps(_)
StripSeps(p) == IF TrailingSep(p) THEN StripSeps(SubSeq(p, 1, Len(p) - 1)) ELSE p
\* os.endsWithDot: the path is "." or ends in "/."
endsWithDot(p) == p = <<".">> \/ (Len(p) >= 2 /\ p[Len(p)] = "." /\ p[Len(p) - 1] = Sep)
\* the last component of the path is ".", whatever separators follow it
LastIsDot(p) == endsWithDot(StripSeps(p))
\* a path that can only name a directory
DirForm(p) == TrailingSep(p) \/ LastIsDot(p)

\* why the directories leading to key k cannot be walked ("" when they can)
WalkErr(f, k) ==
    LET bad == {n \in 0..(Len(k) - 1) : ~IsDir(f, Prefix(k, n))}
    IN IF bad = {} THEN ""
       ELSE IF Exists(f, Prefix(k, Min(bad))) THEN "ENOTDIR" ELSE "ENOENT"

\* stat/lstat: why path p, of key k, does not name an existing entry ("" when
\* it does)
LookupKey(f, p, k) ==
    IF p = <<>> THEN "ENOENT"
    ELSE IF WalkErr(f, k) # "" THEN WalkErr(f, k)
    ELSE IF ~Exists(f, k) THEN "ENOENT"
    ELSE IF DirForm(p) /\ ~f[k].dir THEN "ENOTDIR"
    ELSE ""
Lookup(f, p) == LookupKey(f, p, SplitPath(p))

\* why the kernel cannot reach the directory holding the last component of
\* p; a last component "." is walked through like the ones before it
ParentErr(f, p, k) ==
    IF p = <<>> THEN "ENOENT"
    ELSE IF LastIsDot(p) THEN LookupKey(f, p, k)
    ELSE WalkErr(f, k)

\* the os calls below take the path p, its key k and, where they start by
\* resolving p, the errno e of that

ReadFileAt(f, p, k, e) ==
    IF e # "" THEN [data |-> <<>>, err |-> PathError("open", p, e)]
    ELSE IF f[k].dir THEN [data |-> <<>>, err |-> PathError("read", p, "EISDIR")]
    ELSE [data |-> f[k].data, err |-> NoErr]
os_ReadFile(f, p) == ReadFileAt(f, p, SplitPath(p), Lookup(f, p))

OsFail(f, err) == [fs |-> f, err |-> err]
OsDone(f) == [fs |-> f, err |-> NoErr]

\* open(O_WRONLY|O_CREATE|O_TRUNC), write, close
WriteFileAt(f, p, k, data) ==
    IF ParentErr(f, p, k) # "" THEN OsFail(f, PathError("open", p, ParentErr(f, p, k)))
    ELSE IF DirForm(p) THEN OsFail(f, PathError("open", p, "EISDIR"))
    ELSE IF Exists(f, k) /\ f[k].dir THEN OsFail(f, PathError("open", p, "EISDIR"))
    ELSE OsDone(Put(f, k, FileNode(data)))
os_WriteFile(f, p, data) == WriteFileAt(f, p, SplitPath(p), data)

\* mkdir(2)
MkdirAt(f, p, k) ==
    IF ParentErr(f, p, k) # "" THEN OsFail(f, PathError("mkdir", p, ParentErr(f, p, k)))
    ELSE IF LastIsDot(p) \/ Exists(f, k) THEN OsFail(f, PathError("mkdir", p, "EEXIST"))
    ELSE OsDone(Put(f, k, DirNode))
os_Mkdir(f, p) == MkdirAt(f, p, SplitPath(p))

\* os.MkdirAll: the position of the separator before the last element of p
\* (0 when there is none); the parent is what stands before it
ParentEnd(p) == LastIndexOf(StripSeps(p), Sep)

RECURSIVE os_MkdirAll(_, _)
\* after Mkdir(p) returned r: an error is dropped when p is a directory
MkdirLeaf(f, p, r) ==
    IF r.err = NoErr THEN r
    ELSE IF Lookup(f, p) = "" /\ IsDir(f, SplitPath(p)) THEN OsDone(f)
    ELSE r
\* after MkdirAll(parent) returned m
MkdirAfterParent(m, p) ==
    IF m.err # NoErr THEN m ELSE MkdirLeaf(m.fs, p, os_Mkdir(m.fs, p))
\* after Stat(p) returned errno e
MkdirAllAt(f, p, k, e) ==
    IF e = ""
    THEN (IF f[k].dir THEN OsDone(f) ELSE OsFail(f, PathError("mkdir", p, "ENOTDIR")))
    ELSE IF ParentEnd(p) > 1
    THEN MkdirAfterParent(os_MkdirAll(f, SubSeq(p, 1, ParentEnd(p) - 1)), p)
    ELSE MkdirLeaf(f, p, os_Mkdir(f, p))
os_MkdirAll(f, p) == MkdirAllAt(f, p, SplitPath(p), Lookup(f, p))

\* os.Remove: unlink, then rmdir, and the error that tells more
RemoveAt(f, p, k, e) ==
    IF e # "" THEN OsFail(f, PathError("remove", p, e))
    ELSE IF LastIsDot(p) THEN OsFail(f, PathError("remove", p, "EINVAL"))
    ELSE IF f[k].dir /\ Children(f, k) # {} THEN OsFail(f, PathError("remove", p, "ENOTEMPTY"))
    ELSE OsDone([x \in DOMAIN f \ {k} |-> f[x]])
os_Remove(f, p) == RemoveAt(f, p, SplitPath(p), Lookup(f, p))

\* os.splitPath: the directory and the base name of a relative path
SplitDir(p) ==
    IF LastIndexOf(StripSeps(p), Sep) = 0 THEN <<".">>
    ELSE SubSeq(p, 1, LastIndexOf(StripSeps(p), Sep) - 1)
SplitBase(p) ==
    SubSeq(StripSeps(p), LastIndexOf(StripSeps(p), Sep) + 1, Len(StripSeps(p)))

\* f without the entries at and below key k
WithoutTree(f, k) == [x \in {y \in DOMAIN f : ~IsPrefix(k, y)} |-> f[x]]
\* f without the entries below key k
WithoutContents(f, k) == [x \in {y \in DOMAIN f : ~IsPrefix(k, y) \/ y = k} |-> f[x]]

\* os.RemoveAll once Remove failed: the parent directory is opened (e is the
\* errno of that) and the base name removed from it, with all it holds
RemoveAllFrom(f, parentDir, base, pk, e) ==
    IF e = "ENOENT" THEN OsDone(f)
    ELSE IF e # "" THEN OsFail(f, PathError("open", parentDir, e))
    ELSE IF ~f[pk].dir
    THEN OsFail(f, PathError("unlinkat", parentDir \o <<Sep>> \o base, "ENOTDIR"))
    ELSE IF base = <<".">>
    THEN OsFail(WithoutContents(f, pk),
                PathError("unlinkat", parentDir \o <<Sep>> \o base, "EINVAL"))
    ELSE OsDone(WithoutTree(f, Append(pk, base)))

\* os.RemoveAll after Remove(p) returned r
RemoveAllAt(f, p, r) ==
    IF r.err = NoErr THEN r
    ELSE IF IsNotExist(r.err) THEN OsDone(f)
    ELSE RemoveAllFrom(f, SplitDir(p), SplitBase(p), SplitPath(SplitDir(p)),
                       Lookup(f, SplitDir(p)))
os_RemoveAll(f, p) ==
    IF p = <<>> THEN OsDone(f)
    ELSE IF endsWithDot(p) THEN OsFail(f, PathError("RemoveAll", p, "EINVAL"))
    ELSE RemoveAllAt(f, p, os_Remove(f, p))

\* *os.LinkError: "rename <old> <new>: <errno text>"
LinkError(old, new, errno) ==
    [errno |-> errno, msg |-> <<"rename", " ">> \o old \o <<" ">> \o new \o <<": ", errno>>]

\* the entries at and below k1 moved to k2, whatever was at k2 replaced
Moved(f, k1, k2) ==
    [x \in {y \in DOMAIN f : ~IsPrefix(k1, y) /\ ~IsPrefix(k2, y)}
           \cup {k2 \o SubSeq(y, Len(k1) + 1, Len(y)) : y \in {z \in DOMAIN f : IsPrefix(k1, z)}} |->
        IF IsPrefix(k2, x) THEN f[k1 \o SubSeq(x, Len(k2) + 1, Len(x))] ELSE f[x]]

\* rename(2)
RenameSys(f, old, new, k1, k2) ==
    IF ParentErr(f, old, k1) # "" THEN OsFail(f, LinkError(old, new, ParentErr(f, old, k1)))
    ELSE IF ParentErr(f, new, k2) # "" THEN OsFail(f, LinkError(old, new, ParentErr(f, new, k2)))
    ELSE IF LastIsDot(old) \/ LastIsDot(new) THEN OsFail(f, LinkError(old, new, "EBUSY"))
    ELSE IF ~Exists(f, k1) THEN OsFail(f, LinkError(old, new, "ENOENT"))
    ELSE IF ~f[k1].dir /\ (TrailingSep(old) \/ TrailingSep(new))
    THEN OsFail(f, LinkError(old, new, "ENOTDIR"))
    ELSE IF k1 # k2 /\ IsPrefix(k1, k2) THEN OsFail(f, LinkError(old, new, "EINVAL"))
    ELSE IF k1 # k2 /\ IsPrefix(k2, k1) THEN OsFail(f, LinkError(old, new, "ENOTEMPTY"))
    ELSE IF k1 = k2 THEN OsDone(f)
    ELSE IF f[k1].dir /\ Exists(f, k2) /\ ~f[k2].dir THEN OsFail(f, LinkError(old, new, "ENOTDIR"))
    ELSE IF ~f[k1].dir /\ IsDir(f, k2) THEN OsFail(f, LinkError(old, new, "EISDIR"))
    ELSE OsDone(Moved(f, k1, k2))

\* os.Rename: the check of an existing directory newname (e1 and e2 are the
\* errnos of Lstat(old) and Lstat(new)), then rename(2)
RenameAt(f, old, new, k1, k2, e1, e2) ==
    IF e2 = "" /\ IsDir(f, k2) /\ e1 # "" THEN OsFail(f, LinkError(old, new, e1))
    ELSE IF e2 = "" /\ IsDir(f, k2) /\ (new = old \/ k1 # k2) THEN OsFail(f, LinkError(old, new, "EEXIST"))
    ELSE RenameSys(f, old, new, k1, k2)
os_Rename(f, old, new) ==
    RenameAt(f, old, new, SplitPath(old), SplitPath(new), Lookup(f, old), Lookup(f, new))

(***************************************************************************)
(* encoding/json: a raw payload is either not JSON at all, or an object    *)
(* whose members are strings, booleans or numbers.  Unmarshal into a       *)
(* struct fails on a syntax error or on a member of the wrong type, leaves *)
(* a missing member at its zero value and ignores unknown members.  A      *)
(* member is matched to a field by its name, the case of letters ignored.  *)
(* Member names are sequences of ASCII characters, and the member names of *)
(* one payload differ in more than case.                                   *)
(***************************************************************************)
StrVal(s) == [t |-> "string", s |-> s, b |-> FALSE]
BoolVal(b) == [t |-> "bool", s |-> <<>>, b |-> b]
NumVal == [t |-> "number", s |-> <<>>, b |-> FALSE]
Object(fields) == [syntax |-> TRUE, fields |-> fields]
BadJSON == [syntax |-> FALSE, fields |-> <<>>]
Zero(t) == IF t = "string" THEN StrVal(<<>>) ELSE BoolVal(FALSE)

SyntaxError == NewError("json: invalid character")
UnmarshalTypeError == NewError("json: cannot unmarshal into Go struct field")

\* the json tag of field k of an input struct, character by character
Tag(k) ==
    CASE k = "path" -> <<"p", "a", "t", "h">>
      [] k = "old_str" -> <<"o", "l", "d", "_", "s", "t", "r">>
      [] k = "new_str" -> <<"n", "e", "w", "_", "s", "t", "r">>
      [] k = "recursive" -> <<"r", "e", "c", "u", "r", "s", "i", "v", "e">>
      [] k = "old_path" -> <<"o", "l", "d", "_", "p", "a", "t", "h">>
      [] k = "new_path" -> <<"n", "e", "w", "_", "p", "a", "t", "h">>
      [] OTHER -> <<>>
\* the capital letters and what they fold to
LowerCase ==
    ("A" :> "a") @@ ("B" :> "b") @@ ("C" :> "c") @@ ("D" :> "d") @@ ("E" :> "e") @@ ("F" :> "f")
    @@ ("G" :> "g") @@ ("H" :> "h") @@ ("I" :> "i") @@ ("J" :> "j") @@ ("K" :> "k") @@ ("L" :> "l")
    @@ ("M" :> "m") @@ ("N" :> "n") @@ ("O" :> "o") @@ ("P" :> "p") @@ ("Q" :> "q") @@ ("R" :> "r")
    @@ ("S" :> "s") @@ ("T" :> "t") @@ ("U" :> "u") @@ ("V" :> "v") @@ ("W" :> "w") @@ ("X" :> "x")
    @@ ("Y" :> "y") @@ ("Z" :> "z")
\* a member name with the case of its letters folded
Fold(m) == [i \in 1..Len(m) |-> IF m[i] \in DOMAIN LowerCase THEN LowerCase[m[i]] ELSE m[i]]
\* the members of the payload that go to field k of the struct
Members(input, k) == {m \in DOMAIN input.fields : Fold(m) = Tag(k)}
Member(input, k) == input.fields[CHOOSE m \in Members(input, k) : TRUE]

\* the struct after decoding: the members given with the right type
Decoded(input, shape) ==
    [k \in DOMAIN shape |->
        IF Members(input, k) # {} /\ Member(input, k).t = shape[k]
        THEN Member(input, k) ELSE Zero(shape[k])]

Unmarshal(input, shape) ==
    IF ~input.syntax THEN [err |-> SyntaxError, val |-> [k \in DOMAIN shape |-> Zero(shape[k])]]
    ELSE IF \E k \in DOMAIN shape : Members(input, k) # {} /\ Member(input, k).t # shape[k]
    THEN [err |-> UnmarshalTypeError, val |-> Decoded(input, shape)]
    ELSE [err |-> NoErr, val |-> Decoded(input, shape)]

ReadFileInput == [path |-> "string"]
ListFilesInput == [path |-> "string"]
EditFileInput == [path |-> "string", old_str |-> "string", new_str |-> "string"]
MakeDirectoryInput == [path |-> "string"]
RemoveDirectoryInput == [path |-> "string", recursive |-> "bool"]
RenameDirectoryInput == [old_path |-> "string", new_path |-> "string"]

(***************************************************************************)
(* strings.Index, strings.Count and strings.Replace.                       *)
(***************************************************************************)
\* 1-based position of the first occurrence of sub in s, 0 when there is none
Index(s, sub) ==
    LET hits == {i \in 1..(Len(s) - Len(sub) + 1) : SubSeq(s, i, i + Len(sub) - 1) = sub}
    IN IF hits = {} THEN 0 ELSE Min(hits)

RECURSIVE Count(_, _)
Count(s, sub) ==
    IF sub = <<>> THEN Len(s) + 1
    ELSE IF Index(s, sub) = 0 THEN 0
    ELSE 1 + Count(SubSeq(s, Index(s, sub) + Len(sub), Len(s)), sub)

\* the loop of strings.Replace: start is the 0-based offset already copied
RECURSIVE ReplaceLoop(_, _, _, _, _, _)
ReplaceLoop(s, old, new, start, i, n) ==
    IF i = n THEN SubSeq(s, start + 1, Len(s))
    ELSE LET j == IF old = <<>>
                  THEN (IF i > 0 THEN start + 1 ELSE start)
                  ELSE start + Index(SubSeq(s, start + 1, Len(s)), old) - 1
         IN SubSeq(s, start + 1, j) \o new
              \o ReplaceLoop(s, old, new, j + Len(old), i + 1, n)

Replace(s, old, new, n) ==
    LET m == Count(s, old)
    IN IF old = new \/ n = 0 THEN s
       ELSE IF m = 0 THEN s
       ELSE ReplaceLoop(s, old, new, 0, 0, IF n < 0 \/ m < n THEN m ELSE n)

(***************************************************************************)
(* The tool handlers.  A handler returns its output, its error, the file   *)
(* system it leaves, and whether it panicked instead of returning.  Each   *)
(* handler is cut where it binds a value it uses again: the decoded        *)
(* payload, the result of an os call.                                      *)
(***************************************************************************)
Ret(out, f) == [out |-> out, err |-> NoErr, fs |-> f, panic |-> FALSE]
Fail(err, f) == [out |-> <<>>, err |-> err, fs |-> f, panic |-> FALSE]
Panic(err, f) == [out |-> <<>>, err |-> err, fs |-> f, panic |-> TRUE]

\* if err := <os call r>; err != nil { return "", fmt.Errorf(text, err) }; return out, nil
Wrapped(r, text, out) ==
    IF r.err # NoErr THEN Fail(Wrap(text, r.err), r.fs) ELSE Ret(out, r.fs)

\* content, err := os.ReadFile(path); if err != nil { return "", err }; return string(content), nil
ReadContent(f, r) == IF r.err # NoErr THEN Fail(r.err, f) ELSE Ret(r.data, f)

\* main.go: ReadFile, from the decoded payload on
ReadFileDecoded(f, in) ==
    IF in.err # NoErr THEN Panic(in.err, f)
    ELSE ReadContent(f, os_ReadFile(f, in.val.path.s))
ReadFile(f, input) == ReadFileDecoded(f, Unmarshal(input, ReadFileInput))

\* pkg/tools: ReadFile, from the decoded payload on
tools_ReadFileDecoded(f, in) ==
    IF in.err # NoErr THEN Fail(in.err, f)
    ELSE ReadContent(f, os_ReadFile(f, in.val.path.s))
tools_ReadFile(f, input) == tools_ReadFileDecoded(f, Unmarshal(input, ReadFileInput))

\* the printable ASCII characters in byte order (but the backquote)
Bytes ==
    << " ", "!", "\"", "#", "$", "%", "&", "'", "(", ")", "*", "+", ",", "-", ".", "/",
       "0", "1", "2", "3", "4", "5", "6", "7", "8", "9", ":", ";", "<", "=", ">", "?",
       "@", "A", "B", "C", "D", "E", "F", "G", "H", "I", "J", "K", "L", "M", "N", "O",
       "P", "Q", "R", "S", "T", "U", "V", "W", "X", "Y", "Z", "[", "\\", "]", "^", "_",
       "a", "b", "c", "d", "e", "f", "g", "h", "i", "j", "k", "l", "m", "n", "o",
       "p", "q", "r", "s", "t", "u", "v", "w", "x", "y", "z", "{", "|", "}", "~" >>
\* byte order of the characters of a name
CharRank(c) == IndexOf(Bytes, c)

RECURSIVE NameLess(_, _)
NameLess(a, b) ==
    IF a = <<>> THEN b # <<>>
    ELSE IF b = <<>> THEN FALSE
    ELSE IF Head(a) = Head(b) THEN NameLess(Tail(a), Tail(b))
    ELSE CharRank(Head(a)) < CharRank(Head(b))

\* the entry of todo whose name comes first
First(todo) == CHOOSE x \in todo : \A y \in todo \ {x} : NameLess(x[Len(x)], y[Len(y)])

\* filepath.Walk: the entries at and below key k, each directory before its
\* entries, the entries of a directory in lexical order
RECURSIVE Walk(_, _)
RECURSIVE WalkAll(_, _)
WalkAll(f, todo) ==
    IF todo = {} THEN <<>>
    ELSE Walk(f, First(todo)) \o WalkAll(f, todo \ {First(todo)})
Walk(f, k) == <<k>> \o (IF f[k].dir THEN WalkAll(f, Children(f, k)) ELSE <<>>)

\* filepath.Rel(dir, path) for a path the walk of dir produced
Rel(root, k) == JoinPath(SubSeq(k, Len(root) + 1, Len(k)))

\* the walk function of ListFiles on one entry: what it appends to files
Entry(isDir, relPath) ==
    IF relPath = <<".">> THEN <<>>
    ELSE IF isDir THEN <<relPath \o <<Sep>>>>
    ELSE <<relPath>>

RECURSIVE Listing(_, _, _)
Listing(f, root, keys) ==
    IF keys = <<>> THEN <<>>
    ELSE Entry(f[Head(keys)].dir, Rel(root, Head(keys))) \o Listing(f, root, Tail(keys))

\* json.Marshal of a string, between the quotes: quotes and backslashes
\* are escaped, and so are the characters HTML gives a meaning
EscapeChar(c) ==
    CASE c = "\"" -> <<"\\", "\"">>
      [] c = "\\" -> <<"\\", "\\">>
      [] c = "<" -> <<"\\", "u", "0", "0", "3", "c">>
      [] c = ">" -> <<"\\", "u", "0", "0", "3", "e">>
      [] c = "&" -> <<"\\", "u", "0", "0", "2", "6">>
      [] OTHER -> <<c>>
RECURSIVE EscapeString(_)
EscapeString(str) ==
    IF str = <<>> THEN <<>> ELSE EscapeChar(Head(str)) \o EscapeString(Tail(str))

\* json.Marshal of a []string: a nil slice is null
RECURSIVE MarshalItems(_)
MarshalItems(files) ==
    IF files = <<>> THEN <<>>
    ELSE <<"\"">> \o EscapeString(Head(files)) \o <<"\"">>
         \o (IF Len(files) > 1 THEN <<",">> ELSE <<>>) \o MarshalItems(Tail(files))
Marshal(files) == IF files = <<>> THEN <<"null">> ELSE <<"[">> \o MarshalItems(files) \o <<"]">>

\* ListFiles from the walk on: dir is the directory, e the errno of lstat(dir)
ListDir(f, dir, e) ==
    IF e # "" THEN Fail(PathError("lstat", dir, e), f)
    ELSE Ret(Marshal(Listing(f, SplitPath(dir), Walk(f, SplitPath(dir)))), f)
ListFrom(f, dir) == ListDir(f, dir, Lookup(f, dir))

\* main.go: ListFiles, from the decoded payload on
ListFilesDecoded(f, in) ==
    IF in.err # NoErr THEN Panic(in.err, f)
    ELSE ListFrom(f, IF in.val.path.s # <<>> THEN in.val.path.s ELSE <<".">>)
ListFiles(f, input) == ListFilesDecoded(f, Unmarshal(input, ListFilesInput))

\* pkg/tools: ListFiles, from the decoded payload on
tools_ListFilesDecoded(f, in) ==
    IF in.err # NoErr THEN Fail(in.err, f)
    ELSE ListFrom(f, IF in.val.path.s # <<>> THEN in.val.path.s ELSE <<".">>)
tools_ListFiles(f, input) == tools_ListFilesDecoded(f, Unmarshal(input, ListFilesInput))

\* createNewFile from os.WriteFile on
WriteNewFile(f, filePath, content) ==
    Wrapped(os_WriteFile(f, filePath, content), "failed to create file: ",
            <<"Successfully created file ">> \o filePath)

\* createNewFile after os.MkdirAll returned m
CreateAfterMkdir(m, filePath, content) ==
    IF m.err # NoErr THEN Fail(Wrap("failed to create directory: ", m.err), m.fs)
    ELSE WriteNewFile(m.fs, filePath, content)

\* mutant: the parent directories are not created
createNewFile_NoMkdir(f, filePath, content) == WriteNewFile(f, filePath, content)

createNewFile(f, filePath, content) ==
    IF Dir(filePath) # <<".">>
    THEN CreateAfterMkdir(os_MkdirAll(f, Dir(filePath)), filePath, content)
    ELSE WriteNewFile(f, filePath, content)

\* EditFile from os.WriteFile on
WriteEdited(f, w) == IF w.err # NoErr THEN Fail(w.err, f) ELSE Ret(<<"OK">>, w.fs)

\* EditFile once the file is read: the substitution and the check after it
EditContent(f, Path, OldStr, oldContent, newContent) ==
    IF oldContent = newContent /\ OldStr # <<>>
    THEN Fail(NewError("old_str not found in file"), f)
    ELSE WriteEdited(f, os_WriteFile(f, Path, newContent))

\* mutant: only the first occurrence is replaced
EditRead_FirstOnly(f, Path, OldStr, NewStr, r) ==
    IF r.err # NoErr
    THEN (IF IsNotExist(r.err) /\ OldStr = <<>>
          THEN createNewFile(f, Path, NewStr)
          ELSE Fail(r.err, f))
    ELSE EditContent(f, Path, OldStr, r.data, Replace(r.data, OldStr, NewStr, 1))

\* EditFile after os.ReadFile returned r
EditRead(f, Path, OldStr, NewStr, r) ==
    IF r.err # NoErr
    THEN (IF IsNotExist(r.err) /\ OldStr = <<>>
          THEN createNewFile(f, Path, NewStr)
          ELSE Fail(r.err, f))
    ELSE EditContent(f, Path, OldStr, r.data, Replace(r.data, OldStr, NewStr, -1))

\* mutant: equal old_str and new_str are let through
EditFileDecoded_NoSameCheck(f, in) ==
    IF in.err # NoErr THEN Fail(in.err, f)
    ELSE IF in.val.path.s = <<>>
    THEN Fail(NewError("invalid input parameters"), f)
    ELSE EditRead(f, in.val.path.s, in.val.old_str.s, in.val.new_str.s,
                  os_ReadFile(f, in.val.path.s))

\* EditFile from the decoded payload on
EditFileDecoded(f, in) ==
    IF in.err # NoErr THEN Fail(in.err, f)
    ELSE IF in.val.path.s = <<>> \/ in.val.old_str.s = in.val.new_str.s
    THEN Fail(NewError("invalid input parameters"), f)
    ELSE EditRead(f, in.val.path.s, in.val.old_str.s, in.val.new_str.s,
                  os_ReadFile(f, in.val.path.s))
EditFile(f, input) == EditFileDecoded(f, Unmarshal(input, EditFileInput))

MakeDirectoryDecoded(f, in) ==
    IF in.err # NoErr THEN Fail(in.err, f)
    ELSE IF in.val.path.s = <<>> THEN Fail(NewError("path must not be empty"), f)
    ELSE Wrapped(os_MkdirAll(f, in.val.path.s), "failed to create directory: ",
                 <<"Successfully created directory ">> \o in.val.path.s)
MakeDirectory(f, input) == MakeDirectoryDecoded(f, Unmarshal(input, MakeDirectoryInput))

RemoveDirectoryDecoded(f, in) ==
    IF in.err # NoErr THEN Fail(in.err, f)
    ELSE IF in.val.path.s = <<>> THEN Fail(NewError("path must not be empty"), f)
    ELSE IF in.val.recursive.b
    THEN Wrapped(os_RemoveAll(f, in.val.path.s), "failed to remove directory recursively: ",
                 <<"Successfully removed directory ">> \o in.val.path.s)
    ELSE Wrapped(os_Remove(f, in.val.path.s), "failed to remove directory: ",
                 <<"Successfully removed directory ">> \o in.val.path.s)
RemoveDirectory(f, input) == RemoveDirectoryDecoded(f, Unmarshal(input, RemoveDirectoryInput))

RenameDirectoryDecoded(f, in) ==
    IF in.err # NoErr THEN Fail(in.err, f)
    ELSE IF in.val.old_path.s = <<>> \/ in.val.new_path.s = <<>>
    THEN Fail(NewError("old_path and new_path must not be empty"), f)
    ELSE Wrapped(os_Rename(f, in.val.old_path.s, in.val.new_path.s),
                 "failed to rename directory: ",
                 <<"Successfully renamed directory from ">> \o in.val.old_path.s
                     \o <<" to ">> \o in.val.new_path.s)
RenameDirectory(f, input) == RenameDirectoryDecoded(f, Unmarshal(input, RenameDirectoryInput))

(***************************************************************************)
(* The dispatcher.                                                         *)
(***************************************************************************)
\* main(): the names of the tool list handed to NewAgent, in order
tools == <<"read_file", "list_files", "edit_file",
           "make_directory", "remove_directory", "rename_directory">>

\* ToolDefinition.Function of the tool called name, in the root program
\* ("main") and in the program built on pkg/tools ("pkg")
Function(reg, name, f, input) ==
    CASE name = "read_file" -> IF reg = "main" THEN ReadFile(f, input) ELSE tools_ReadFile(f, input)
      [] name = "list_files" -> IF reg = "main" THEN ListFiles(f, input) ELSE tools_ListFiles(f, input)
      [] name = "edit_file" -> EditFile(f, input)
      [] name = "make_directory" -> MakeDirectory(f, input)
      [] name = "remove_directory" -> RemoveDirectory(f, input)
      [] name = "rename_directory" -> RenameDirectory(f, input)
      [] OTHER -> Fail(NewError("tool not found"), f)

NewTextBlock(text) == [type |-> "text", text |-> text]
NewToolUseBlock(id, name, input) == [type |-> "tool_use", id |-> id, name |-> name, input |-> input]
NewToolResultBlock(id, content, isError) ==
    [type |-> "tool_result", id |-> id, content |-> content, is_error |-> isError]
NewUserMessage(content) == [role |-> "user", content |-> content]
\* Message.ToParam: the response as a turn of the history
ToParam(content) == [role |-> "assistant", content |-> content]

NoResult == NewToolResultBlock(0, <<>>, FALSE)

\* what executeTool does: the block it returns, the file system it leaves,
\* whether a handler ran, and whether that handler panicked (no block then)
Outcome(result, f, invoked, panic) ==
    [result |-> result, fs |-> f, invoked |-> invoked, panic |-> panic]

\* executeTool after toolDef.Function returned r
ToolResult(id, r) ==
    IF r.panic THEN Outcome(NoResult, r.fs, TRUE, TRUE)
    ELSE IF r.err # NoErr THEN Outcome(NewToolResultBlock(id, r.err.msg, TRUE), r.fs, TRUE, FALSE)
    ELSE Outcome(NewToolResultBlock(id, r.out, FALSE), r.fs, TRUE, FALSE)

\* mutant: the block for a tool that is not found is not flagged as an error
executeTool_NotFlagged(reg, f, id, name, input) ==
    IF ~(\E i \in 1..Len(tools) : tools[i] = name)
    THEN Outcome(NewToolResultBlock(id, <<"tool not found">>, FALSE), f, FALSE, FALSE)
    ELSE ToolResult(id, Function(reg, name, f, input))

executeTool(reg, f, id, name, input) ==
    IF ~(\E i \in 1..Len(tools) : tools[i] = name)
    THEN Outcome(NewToolResultBlock(id, <<"tool not found">>, TRUE), f, FALSE, FALSE)
    ELSE ToolResult(id, Function(reg, name, f, input))

\* every file of f holds at most MaxLen characters
Fits(f) == \A k \in DOMAIN f : Len(f[k].data) <= MaxLen

(***************************************************************************)
(* Inputs.                                                                 *)
(***************************************************************************)
RootOnly == (<<>> :> DirNode)
\* the working directories a session may start in
FileAndDir == Put(Put(RootOnly, <<<<"f">>>>, FileNode(<<"a", "b">>)), <<<<"d">>>>, DirNode)
TwoFiles == Put(Put(RootOnly, <<<<"f">>>>, FileNode(<<"a", "a", "a">>)), <<<<"d">>>>, FileNode(<<"b">>))
Nested ==
    Put(Put(Put(RootOnly, <<<<"d">>>>, DirNode), <<<<"d">>, <<"e">>>>, DirNode),
        <<<<"d">>, <<"e">>, <<"f">>>>, FileNode(<<"a", "b", "a">>))
InitialFS == { RootOnly, FileAndDir, TwoFiles, Nested }
LoopFS == { RootOnly, FileAndDir }

PathInputs ==
    { <<>>, <<"f">>, <<"d">>, <<"d", "/">>, <<"d", "/", "e", "/", "f">>,
      <<"d", "/", ".">>, <<".", "/", "f">> }
StrInputs == { <<>>, <<"a">>, <<"b">>, <<"a", "a">> }

\* the members of a payload, given by the fields they are named after
Named(r) == [m \in {Tag(k) : k \in DOMAIN r} |-> r[CHOOSE k \in DOMAIN r : Tag(k) = m]]
PathObject(p) == Object(Named([path |-> StrVal(p)]))
EditObject(p, old, new) ==
    Object(Named([path |-> StrVal(p), old_str |-> StrVal(old), new_str |-> StrVal(new)]))
RemoveObject(p, rec) == Object(Named([path |-> StrVal(p), recursive |-> BoolVal(rec)]))
RenameObject(old, new) == Object(Named([old_path |-> StrVal(old), new_path |-> StrVal(new)]))
\* payloads whose member names are spelt in another case
MixedCase ==
    { <<"read_file", Object((<<"p", "A", "t", "h">> :> StrVal(<<"f">>)))>>,
      <<"list_files", Object((<<"P", "a", "T", "h">> :> StrVal(<<"d">>)))>>,
      <<"edit_file", Object((<<"p", "a", "t", "h">> :> StrVal(<<"f">>))
                            @@ (<<"o", "l", "d", "_", "S", "t", "r">> :> StrVal(<<"a">>))
                            @@ (<<"N", "E", "W", "_", "s", "t", "r">> :> StrVal(<<"b">>)))>>,
      <<"remove_directory", Object((<<"P", "a", "t", "h">> :> StrVal(<<"d">>))
                                   @@ (<<"r", "E", "c", "u", "r", "s", "i", "v", "e">> :> BoolVal(TRUE)))>> }
\* payloads no tool can decode: not JSON, and a number where a string belongs,
\* under the name of the field or under that name in another case
Malformed ==
    { BadJSON, Object(Named([path |-> NumVal, old_path |-> NumVal])),
      Object((<<"p", "A", "T", "H">> :> NumVal)
             @@ (<<"O", "l", "d", "_", "P", "a", "t", "h">> :> NumVal)) }
IsMalformed(input) == input \in Malformed

ToolNameSet == {tools[i] : i \in 1..Len(tools)}
UnknownTool == "write_file"
\* names of no tool: another tool, and a tool's name in another case
UnknownTools == { UnknownTool, "Read_File" }

\* <<name, input>> pairs the dispatcher is tried on
ToolCalls ==
    (ToolNameSet \X Malformed)
    \cup {<<n, PathObject(<<"f">>)>> : n \in UnknownTools}
    \cup {<<UnknownTool, BadJSON>>}
    \cup {<<"edit_file", PathObject(p)>> : p \in PathInputs}
    \cup {<<"read_file", PathObject(p)>> : p \in PathInputs}
    \cup MixedCase
    \cup {<<"list_files", PathObject(p)>> : p \in PathInputs}
    \cup {<<"list_files", Object(<<>>)>>}
    \cup {<<"edit_file", EditObject(x[1], x[2], x[3])>> : x \in PathInputs \X StrInputs \X StrInputs}
    \cup {<<"make_directory", PathObject(p)>> : p \in PathInputs}
    \cup {<<"remove_directory", RemoveObject(x[1], x[2])>> : x \in PathInputs \X BOOLEAN}
    \cup {<<"rename_directory", RenameObject(x[1], x[2])>> : x \in PathInputs \X PathInputs}

\* <<name, input>> pairs the model asks for in the conversation loop
LoopCalls ==
    { <<UnknownTool, PathObject(<<"f">>)>>,
      <<"read_file", BadJSON>>,
      <<"read_file", PathObject(<<"f">>)>>,
      <<"make_directory", PathObject(<<"d">>)>>,
      <<"edit_file", EditObject(<<"d", "/", "e", "/", "f">>, <<>>, <<"a">>)>> }

UserLines == { <<"h", "i">> }
Texts == { <<"o", "k">> }

\* the responses the model may give when it has emitted n blocks so far:
\* text and tool_use blocks in any order, every tool_use with a fresh id
BlockChoices == {<<"text", t>> : t \in Texts} \cup {<<"tool_use", c>> : c \in LoopCalls}
MakeBlock(choice, id) ==
    IF choice[1] = "text" THEN NewTextBlock(choice[2])
    ELSE NewToolUseBlock(id, choice[2][1], choice[2][2])
Responses(n) ==
    UNION { { [i \in 1..len |-> MakeBlock(c[i], n + i)] : c \in [1..len -> BlockChoices] }
            : len \in 0..(MaxBlocks - n) }

(***************************************************************************)
(* Agent.Run.                                                              *)
(***************************************************************************)
NoCall == NewToolUseBlock(0, "", BadJSON)
NoOutcome == Outcome(NoResult, RootOnly, FALSE, FALSE)

Idle == tpc = "idle" /\ call = NoCall /\ outcome = NoOutcome /\ fs0 = RootOnly /\ calls = 0

Init ==
    /\ conversation = <<>>
    /\ readUserInput = TRUE
    /\ pc = "top"
    /\ message = <<>>
    /\ idx = 1
    /\ toolResults = <<>>
    /\ fs \in LoopFS
    /\ requests = 0
    /\ blocks = 0
    /\ dispatched = <<>>
    /\ registry = "main"
    /\ Idle

\* mutant: the line read is not appended to the history
GetUserMessage_DropsLine ==
    /\ pc = "top" /\ readUserInput
    /\ \E userInput \in UserLines : conversation' = conversation
    /\ pc' = "infer"
    /\ UNCHANGED <<readUserInput, message, idx, toolResults, fs, requests, blocks,
                   dispatched, registry, harnessVars>>

\* getUserMessage returned a line: it becomes a user turn
GetUserMessage ==
    /\ pc = "top" /\ readUserInput
    /\ \E userInput \in UserLines :
          conversation' = Append(conversation, NewUserMessage(<<NewTextBlock(userInput)>>))
    /\ pc' = "infer"
    /\ UNCHANGED <<readUserInput, message, idx, toolResults, fs, requests, blocks,
                   dispatched, registry, harnessVars>>

\* getUserMessage met the end of the input: break
EndOfInput ==
    /\ pc = "top" /\ readUserInput
    /\ pc' = "done"
    /\ UNCHANGED <<conversation, readUserInput, message, idx, toolResults, fs, requests,
                   blocks, dispatched, registry, harnessVars>>

AtInference == pc = "infer" \/ (pc = "top" /\ ~readUserInput)

\* mutant: only the last turn is kept with the response
RunInference_Truncates ==
    /\ AtInference
    /\ requests < MaxRequests
    /\ \E content \in Responses(blocks) :
          /\ message' = content
          /\ conversation' = <<conversation[Len(conversation)], ToParam(content)>>
          /\ blocks' = blocks + Len(content)
    /\ requests' = requests + 1
    /\ idx' = 1
    /\ toolResults' = <<>>
    /\ dispatched' = <<>>
    /\ pc' = "blocks"
    /\ UNCHANGED <<readUserInput, fs, registry, harnessVars>>

\* runInference returned a message: it is appended and its blocks are scanned
RunInference ==
    /\ AtInference
    /\ requests < MaxRequests
    /\ \E content \in Responses(blocks) :
          /\ message' = content
          /\ conversation' = Append(conversation, ToParam(content))
          /\ blocks' = blocks + Len(content)
    /\ requests' = requests + 1
    /\ idx' = 1
    /\ toolResults' = <<>>
    /\ dispatched' = <<>>
    /\ pc' = "blocks"
    /\ UNCHANGED <<readUserInput, fs, registry, harnessVars>>

\* runInference returned an error: Run returns it
InferenceError ==
    /\ AtInference
    /\ requests < MaxRequests
    /\ requests' = requests + 1
    /\ pc' = "error"
    /\ UNCHANGED <<conversation, readUserInput, message, idx, toolResults, fs, blocks,
                   dispatched, registry, harnessVars>>

\* one iteration of the loop over message.Content, on a text block
ShowText ==
    /\ pc = "blocks" /\ idx <= Len(message)
    /\ message[idx].type = "text"
    /\ idx' = idx + 1
    /\ UNCHANGED <<conversation, readUserInput, pc, message, toolResults, fs, requests,
                   blocks, dispatched, registry, harnessVars>>

\* mutant: a result is put in front of the results collected so far
Executed_Prepends(content, r) ==
    /\ Fits(r.fs)
    /\ dispatched' = Append(dispatched, <<content.id, r.invoked>>)
    /\ fs' = r.fs
    /\ \/ /\ ~r.panic
          /\ toolResults' = <<r.result>> \o toolResults
          /\ idx' = idx + 1
          /\ pc' = pc
       \/ /\ r.panic
          /\ pc' = "panic"
          /\ UNCHANGED <<idx, toolResults>>

\* case "tool_use", once executeTool is through with outcome r
Executed(content, r) ==
    /\ Fits(r.fs)
    /\ dispatched' = Append(dispatched, <<content.id, r.invoked>>)
    /\ fs' = r.fs
    /\ \/ /\ ~r.panic
          /\ toolResults' = Append(toolResults, r.result)
          /\ idx' = idx + 1
          /\ pc' = pc
       \/ /\ r.panic
          /\ pc' = "panic"
          /\ UNCHANGED <<idx, toolResults>>

\* one iteration of the loop over message.Content, on a tool_use block
ExecuteToolUse ==
    /\ pc = "blocks" /\ idx <= Len(message)
    /\ message[idx].type = "tool_use"
    /\ Executed(message[idx],
                executeTool(registry, fs, message[idx].id, message[idx].name, message[idx].input))
    /\ UNCHANGED <<conversation, readUserInput, message, requests, blocks, registry,
                   harnessVars>>

\* mutant: the results are not appended to the history
FinishTurn_DropsResults ==
    /\ pc = "blocks" /\ idx > Len(message)
    /\ \/ /\ Len(toolResults) = 0
          /\ readUserInput' = TRUE
          /\ UNCHANGED conversation
       \/ /\ Len(toolResults) # 0
          /\ readUserInput' = FALSE
          /\ UNCHANGED conversation
    /\ pc' = "top"
    /\ UNCHANGED <<message, idx, toolResults, fs, requests, blocks, dispatched, registry,
                   harnessVars>>

\* mutant: the user is asked for a line after every turn
FinishTurn_AlwaysReads ==
    /\ pc = "blocks" /\ idx > Len(message)
    /\ \/ /\ Len(toolResults) = 0
          /\ readUserInput' = TRUE
          /\ UNCHANGED conversation
       \/ /\ Len(toolResults) # 0
          /\ readUserInput' = TRUE
          /\ conversation' = Append(conversation, NewUserMessage(toolResults))
    /\ pc' = "top"
    /\ UNCHANGED <<message, idx, toolResults, fs, requests, blocks, dispatched, registry,
                   harnessVars>>

\* the end of the iteration: back to the user, or the results go to the model
FinishTurn ==
    /\ pc = "blocks" /\ idx > Len(message)
    /\ \/ /\ Len(toolResults) = 0
          /\ readUserInput' = TRUE
          /\ UNCHANGED conversation
       \/ /\ Len(toolResults) # 0
          /\ readUserInput' = FALSE
          /\ conversation' = Append(conversation, NewUserMessage(toolResults))
    /\ pc' = "top"
    /\ UNCHANGED <<message, idx, toolResults, fs, requests, blocks, dispatched, registry,
                   harnessVars>>

Next ==
    \/ GetUserMessage
    \/ EndOfInput
    \/ RunInference
    \/ InferenceError
    \/ ShowText
    \/ ExecuteToolUse
    \/ FinishTurn

Spec == Init /\ [][Next]_vars

(***************************************************************************)
(* The dispatcher on its own: executeTool applied to one tool_use block    *)
(* after another, for either program's tool list.                          *)
(***************************************************************************)
IdsTried == {1, 2}

InitTools ==
    /\ conversation = <<>>
    /\ readUserInput = TRUE
    /\ pc = "tools"
    /\ message = <<>>
    /\ idx = 1
    /\ toolResults = <<>>
    /\ fs \in InitialFS
    /\ requests = 0
    /\ blocks = 0
    /\ dispatched = <<>>
    /\ registry \in {"main", "pkg"}
    /\ Idle

\* the harness after executeTool returned r for the block c
Dispatched(c, r) ==
    /\ Fits(r.fs)
    /\ call' = c
    /\ outcome' = r
    /\ fs0' = fs
    /\ fs' = r.fs
    /\ tpc' = IF r.panic THEN "panic" ELSE "returned"

Dispatch ==
    /\ tpc = "idle"
    /\ calls < MaxCalls
    /\ calls' = calls + 1
    /\ \E id \in IdsTried, c \in ToolCalls :
          Dispatched(NewToolUseBlock(id, c[1], c[2]), executeTool(registry, fs, id, c[1], c[2]))
    /\ UNCHANGED <<loopVars, registry>>

Return ==
    /\ tpc = "returned"
    /\ tpc' = "idle"
    /\ call' = NoCall
    /\ outcome' = NoOutcome
    /\ fs0' = RootOnly
    /\ UNCHANGED <<loopVars, registry, fs, calls>>

NextTools == Dispatch \/ Return

SpecTools == InitTools /\ [][NextTools]_vars

(***************************************************************************)
(* Properties of the conversation loop (specification Spec).               *)
(***************************************************************************)
IsToolUse(b) == b.type = "tool_use"
IsToolResult(b) == b.type = "tool_result"
IsText(b) == b.type = "text"
Ids(bs) == [i \in 1..Len(bs) |-> bs[i].id]
\* the ids of the tool_use blocks of a content, in order
ToolUseIds(content) == Ids(SelectSeq(content, IsToolUse))
\* a user turn made of tool_result blocks only, and at least one
IsResultTurn(turn) ==
    /\ turn.role = "user"
    /\ turn.content # <<>>
    /\ \A i \in 1..Len(turn.content) : IsToolResult(turn.content[i])
\* a user turn holding one line typed by the user
IsTypedTurn(turn) ==
    turn.role = "user" /\ Len(turn.content) = 1 /\ IsText(turn.content[1])
CallsTools(turn) == turn.role = "assistant" /\ ToolUseIds(turn.content) # <<>>
Last(seq) == seq[Len(seq)]

\* C1: every assistant turn N with tool_use blocks is followed, in turn N+1,
\* by a user turn of tool_result blocks with the same ids; while turn N is
\* still the last turn the loop is executing its tool calls (or a handler
\* has crashed the process): it is not reading a line of user input, not
\* asking the model, and has not ended.
C1_NoDanglingToolCall ==
    \A n \in 1..Len(conversation) :
        CallsTools(conversation[n]) =>
            IF n < Len(conversation)
            THEN /\ IsResultTurn(conversation[n + 1])
                 /\ Ids(conversation[n + 1].content) = ToolUseIds(conversation[n].content)
            ELSE pc \in {"blocks", "panic"}

C1_Witness ==
    /\ pc = "top"
    /\ Len(conversation) = 3
    /\ Len(ToolUseIds(conversation[2].content)) = 2
    /\ IsResultTurn(conversation[3])

\* C2: the tool_use blocks of a turn are dispatched one by one in the order
\* the model emitted them; when the loop is back at the model request after
\* a turn with n >= 1 tool_use blocks, all n have been dispatched, and the
\* one turn appended after the assistant's holds exactly n tool_result
\* blocks with the ids of u1..un in that order.
C2_ToolsInOrder ==
    /\ pc = "blocks" =>
          /\ [i \in 1..Len(dispatched) |-> dispatched[i][1]]
                = ToolUseIds(SubSeq(message, 1, idx - 1))
          /\ Ids(toolResults) = ToolUseIds(SubSeq(message, 1, idx - 1))
    /\ (pc = "top" /\ ~readUserInput) =>
          LET n == Len(conversation) IN
          /\ n >= 2
          /\ conversation[n - 1] = ToParam(message)
          /\ ToolUseIds(message) # <<>>
          /\ [i \in 1..Len(dispatched) |-> dispatched[i][1]] = ToolUseIds(message)
          /\ IsResultTurn(conversation[n])
          /\ Len(conversation[n].content) = Len(ToolUseIds(message))
          /\ Ids(conversation[n].content) = ToolUseIds(message)

C2_Witness ==
    /\ pc = "top" /\ ~readUserInput
    /\ Len(message) = 3
    /\ Len(ToolUseIds(message)) = 2
    /\ Len(dispatched) = 2
    /\ fs # RootOnly

\* a step that reads a line of user input
ReadsLine ==
    /\ Len(conversation') = Len(conversation) + 1
    /\ IsTypedTurn(Last(conversation'))
\* a step that issues a model request
IssuesRequest == requests' = requests + 1

\* C3: a line of user input is read only when the history is empty or its
\* last turn is an assistant turn without tool_use blocks; a model request
\* is issued only with a user turn last, which is the tool_result turn when
\* the assistant turn before it has tool_use blocks and a typed line when
\* it has none; and the step after an assistant turn with tool_use blocks
\* that changes the history appends the tool_result turn.
C3_ReadOnlyAfterPlainTurn ==
    [][ /\ ReadsLine =>
              \/ conversation = <<>>
              \/ (Last(conversation).role = "assistant" /\ ~CallsTools(Last(conversation)))
        /\ IssuesRequest =>
              /\ conversation # <<>>
              /\ Last(conversation).role = "user"
              /\ IF Len(conversation) >= 2 /\ CallsTools(conversation[Len(conversation) - 1])
                 THEN IsResultTurn(Last(conversation))
                 ELSE IsTypedTurn(Last(conversation))
        /\ (conversation # <<>> /\ CallsTools(Last(conversation))
                /\ conversation' # conversation) =>
              /\ Len(conversation') = Len(conversation) + 1
              /\ IsResultTurn(Last(conversation'))
              /\ ~readUserInput'
      ]_vars

C3_Witness ==
    /\ pc = "blocks"
    /\ requests = 2
    /\ Len(conversation) = 4
    /\ CallsTools(conversation[2])
    /\ IsResultTurn(conversation[3])

\* C5 (as claimed): the loop ends only at the end of the input or on an
\* error of the model request, and a tool_use block whose tool fails is
\* answered by a tool_result block with is_error set, the loop going on.
C5_OnlyTwoWaysToEnd ==
    /\ pc \in {"top", "infer", "blocks", "done", "error"}
    /\ pc = "blocks" => Len(toolResults) = Len(dispatched)

\* C7: the history starts empty, and every step leaves it as it is or
\* appends to it: the old history is a prefix of the new one.
C7_AppendOnly ==
    /\ conversation = <<>>
    /\ [][ /\ Len(conversation') >= Len(conversation)
           /\ SubSeq(conversation', 1, Len(conversation)) = conversation ]_vars

C7_Witness ==
    /\ Len(conversation) = 5
    /\ IsResultTurn(conversation[3])
    /\ IsResultTurn(conversation[5])

(***************************************************************************)
(* Properties of the dispatcher and the tools (specification SpecTools).   *)
(***************************************************************************)
\* the harness holds a call and what executeTool made of it
Called == tpc # "idle"
CalledTool(name) == Called /\ call.name = name
\* the string the payload of the call gives for field key
Arg(key) == IF Members(call.input, key) # {} THEN Member(call.input, key).s ELSE <<>>
ErrorResult(text) == NewToolResultBlock(call.id, text, TRUE)

\* C4 (as claimed): a payload that does not decode is answered, for each of
\* the six tools, by a tool_result block with is_error set that carries the
\* decode error's message; the process does not crash.
C4_DecodeFailureIsAResult ==
    (Called /\ call.name \in ToolNameSet /\ IsMalformed(call.input)) =>
        /\ ~outcome.panic
        /\ outcome.result \in {ErrorResult(SyntaxError.msg), ErrorResult(UnmarshalTypeError.msg)}
        /\ fs = fs0

\* C6: a tool_use block naming no tool of the list is answered by a
\* tool_result block with its id, is_error set and the output "tool not
\* found"; no handler runs and the file system stays as it was.
C6_UnknownTool ==
    (Called /\ call.name \notin {"read_file", "list_files", "edit_file", "make_directory",
                                 "remove_directory", "rename_directory"}) =>
        /\ outcome.result = ErrorResult(<<"tool not found">>)
        /\ ~outcome.invoked
        /\ ~outcome.panic
        /\ tpc = "returned"
        /\ fs = fs0

C6_Witness ==
    /\ tpc = "returned"
    /\ call.name = "Read_File"
    /\ call.id = 2
    /\ fs0 = FileAndDir
    /\ calls = 2

\* the payload of an edit_file call that decodes
EditCall == CalledTool("edit_file") /\ ~IsMalformed(call.input)
\* path p names a regular file of fs0
RegularFile(p) ==
    /\ p # <<>> /\ ~DirForm(p)
    /\ SplitPath(p) \in DOMAIN fs0
    /\ ~fs0[SplitPath(p)].dir
\* fs is fs0 but for the file of key k, which holds data
OnlyFileChanged(k, data) ==
    /\ DOMAIN fs = DOMAIN fs0 \cup {k}
    /\ fs[k] = FileNode(data)
    /\ \A x \in DOMAIN fs0 \ {k} : fs[x] = fs0[x]

\* where old occurs in C
Occurrences(C, old) == {i \in 1..(Len(C) - Len(old) + 1) : SubSeq(C, i, i + Len(old) - 1) = old}
NonOverlapping(S, n) == \A i, j \in S : i < j => i + n <= j
\* the most occurrences of old in C no two of which overlap
MaxNonOverlapping(C, old) ==
    CHOOSE k \in 0..Len(C) :
        /\ \E S \in SUBSET Occurrences(C, old) : NonOverlapping(S, Len(old)) /\ Cardinality(S) = k
        /\ \A S \in SUBSET Occurrences(C, old) : NonOverlapping(S, Len(old)) => Cardinality(S) <= k
\* C from position i on, with new in place of the n characters at each position of S
RECURSIVE Spliced(_, _, _, _, _)
Spliced(C, S, n, new, i) ==
    IF i > Len(C) THEN <<>>
    ELSE IF i \in S THEN new \o Spliced(C, S, n, new, i + n)
    ELSE <<C[i]>> \o Spliced(C, S, n, new, i + 1)

\* C8: edit_file on an existing file with content C, old non-empty and
\* other than new: with k >= 1 non-overlapping occurrences of old in C, k of
\* them are replaced by new, the result is written and the call succeeds
\* with "OK"; with k = 0 the call fails with "old_str not found in file"
\* and the file system is left as it was.
C8_ReplaceAllOrNoMatch ==
    (EditCall /\ RegularFile(Arg("path")) /\ Arg("old_str") # <<>>
        /\ Arg("old_str") # Arg("new_str")) =>
        LET C == fs0[SplitPath(Arg("path"))].data
            old == Arg("old_str")
            k == MaxNonOverlapping(C, old)
        IN IF k >= 1
           THEN /\ outcome.result = NewToolResultBlock(call.id, <<"OK">>, FALSE)
                /\ \E S \in SUBSET Occurrences(C, old) :
                      /\ NonOverlapping(S, Len(old))
                      /\ Cardinality(S) = k
                      /\ OnlyFileChanged(SplitPath(Arg("path")),
                                         Spliced(C, S, Len(old), Arg("new_str"), 1))
                /\ fs # fs0
           ELSE /\ outcome.result = ErrorResult(<<"old_str not found in file">>)
                /\ fs = fs0

C8_Witness ==
    /\ EditCall /\ RegularFile(Arg("path"))
    /\ fs0[SplitPath(Arg("path"))].data = <<"a", "a", "a">>
    /\ Arg("old_str") = <<"a">>
    /\ Arg("new_str") = <<"b">>
    /\ fs[SplitPath(Arg("path"))].data = <<"b", "b", "b">>

\* C9: edit_file with old_str equal to new_str (both empty included) fails
\* with "invalid input parameters" whether or not the path exists, and the
\* file system is left as it was.
C9_SameStringsRejected ==
    (EditCall /\ Arg("old_str") = Arg("new_str")) =>
        /\ outcome.result = ErrorResult(<<"invalid input parameters">>)
        /\ fs = fs0

C9_Witness ==
    /\ EditCall
    /\ Arg("old_str") = <<"a">> /\ Arg("new_str") = <<"a">>
    /\ RegularFile(Arg("path"))
    /\ Index(fs0[SplitPath(Arg("path"))].data, <<"a">>) # 0

\* the entry of path p does not exist in fs0
Missing(p) == Lookup(fs0, p) # ""
\* edit_file(p, "", new) created p with content new, and its parents
Created(p, new) ==
    /\ outcome.result = NewToolResultBlock(call.id, <<"Successfully created file ">> \o p, FALSE)
    /\ SplitPath(p) \in DOMAIN fs
    /\ fs[SplitPath(p)] = FileNode(new)
    /\ \A n \in 0..(Len(SplitPath(p)) - 1) : IsDir(fs, Prefix(SplitPath(p), n))
    /\ DOMAIN fs = DOMAIN fs0 \cup {Prefix(SplitPath(p), n) : n \in 0..Len(SplitPath(p))}
    /\ \A x \in DOMAIN fs0 : fs[x] = fs0[x]

\* C10 (as claimed): edit_file(p, "", new), new non-empty, on a path p that
\* does not exist succeeds, creates the missing parent directories of p and
\* leaves p with content new.  (Stated for the paths that can name a file:
\* not empty and not ending in a separator or in a "." element.)
C10_CreatesAnyMissingPath ==
    (EditCall /\ Arg("old_str") = <<>> /\ Arg("new_str") # <<>>
        /\ Arg("path") # <<>> /\ ~DirForm(Arg("path"))
        /\ Missing(Arg("path"))) =>
        Created(Arg("path"), Arg("new_str"))

\* no directory on the way to key k exists as something else than a directory
ParentsFree(k) == \A n \in 1..(Len(k) - 1) : Prefix(k, n) \in DOMAIN fs0 => fs0[Prefix(k, n)].dir

\* C10 (amended): edit_file(p, "", new), new non-empty, succeeds, creates the
\* missing parent directories of p and leaves p with content new when p is
\* not empty, does not end in a separator or in a "." element, does not
\* exist, and none of the directories leading to it exists as a file.
C10_CreatesMissingFile ==
    (EditCall /\ Arg("old_str") = <<>> /\ Arg("new_str") # <<>>
        /\ Arg("path") # <<>> /\ ~DirForm(Arg("path"))
        /\ SplitPath(Arg("path")) \notin DOMAIN fs0
        /\ ParentsFree(SplitPath(Arg("path")))) =>
        Created(Arg("path"), Arg("new_str"))

C10_Witness ==
    /\ EditCall /\ Arg("old_str") = <<>> /\ Arg("new_str") = <<"a", "a">>
    /\ Arg("path") = <<"d", "/", "e", "/", "f">>
    /\ DOMAIN fs0 = {<<>>}
    /\ Cardinality(DOMAIN fs) = 4
    /\ ~outcome.result.is_error

(***************************************************************************)
(* remove_directory without recursion.                                     *)
(***************************************************************************)
RemoveCall(rec) ==
    /\ CalledTool("remove_directory") /\ ~IsMalformed(call.input)
    /\ Members(call.input, "recursive") # {}
    /\ Member(call.input, "recursive").b = rec
\* path p names a directory without entries in the file system f (by a name:
\* rmdir refuses a path that ends in a "." element)
EmptyDirectory(f, p) ==
    /\ p # <<>>
    /\ ~LastIsDot(p)
    /\ SplitPath(p) # <<>>
    /\ IsDir(f, SplitPath(p))
    /\ \A n \in 0..Len(SplitPath(p)) : IsDir(f, Prefix(SplitPath(p), n))
    /\ \A k \in DOMAIN f : IsPrefix(SplitPath(p), k) => k = SplitPath(p)
\* the file system f without the entry of key k
Without(f, k) == [x \in DOMAIN f \ {k} |-> f[x]]

\* C11 (as claimed): remove_directory(p, recursive=false) removes p when p
\* is an empty directory, and nothing else; for every other p (a directory
\* with entries, a regular file, a path that does not exist) the result is
\* an error and the file system is left as it was.
C11_RemovesOnlyEmptyDirectory ==
    RemoveCall(FALSE) =>
        IF EmptyDirectory(fs0, Arg("path"))
        THEN ~outcome.result.is_error /\ fs = Without(fs0, SplitPath(Arg("path")))
        ELSE outcome.result.is_error /\ fs = fs0

\* the part of C11 that holds: whatever is not a regular file is treated as
\* claimed
C11_ExceptRegularFiles ==
    (RemoveCall(FALSE) /\ ~RegularFile(Arg("path"))) =>
        IF EmptyDirectory(fs0, Arg("path"))
        THEN ~outcome.result.is_error /\ fs = Without(fs0, SplitPath(Arg("path")))
        ELSE outcome.result.is_error /\ fs = fs0

(***************************************************************************)
(* list_files.                                                             *)
(***************************************************************************)
ListCall == CalledTool("list_files") /\ ~IsMalformed(call.input)
\* the directory a list_files call walks
ListedPath == IF Arg("path") = <<>> THEN <<".">> ELSE Arg("path")
ListedDir == SplitPath(ListedPath)
ListsDirectory == ListCall /\ Lookup(fs0, ListedPath) = "" /\ IsDir(fs0, ListedDir)
\* the entries of the tree below the listed directory, the directory excluded
Below == {k \in DOMAIN fs0 : IsPrefix(ListedDir, k) /\ k # ListedDir}

\* the name of entry k relative to the directory of key d, followed by the
\* separator when k is a directory
RECURSIVE RelativeName(_, _)
RelativeName(k, n) ==
    IF n > Len(k) THEN <<>>
    ELSE k[n] \o (IF n < Len(k) THEN <<Sep>> ELSE <<>>) \o RelativeName(k, n + 1)
Expected(k) ==
    RelativeName(k, Len(ListedDir) + 1) \o (IF fs0[k].dir THEN <<Sep>> ELSE <<>>)

\* a JSON text that is an array
IsArray(text) == Len(text) >= 2 /\ Head(text) = "[" /\ text[Len(text)] = "]"
\* the strings between the quotes of a text, in order
RECURSIVE Strings(_)
Strings(t) ==
    IF IndexOf(t, "\"") = 0 THEN <<>>
    ELSE LET rest == SubSeq(t, IndexOf(t, "\"") + 1, Len(t))
             close == IndexOf(rest, "\"")
         IN <<SubSeq(rest, 1, close - 1)>> \o Strings(SubSeq(rest, close + 1, Len(rest)))
Times(items, e) == Cardinality({i \in 1..Len(items) : items[i] = e})
\* items holds every entry below the listed directory once, and nothing else
ListsBelow(items) ==
    /\ \A k \in Below : Times(items, Expected(k)) = 1
    /\ \A i \in 1..Len(items) : \E k \in Below : items[i] = Expected(k)
    /\ Len(items) = Cardinality(Below)

\* C12 (as claimed): for every existing directory d, list_files(d) returns
\* a list that does not contain d itself and contains every other entry of
\* the tree below d exactly once, as a path relative to d, an entry ending
\* with the separator if and only if it is a directory.
C12_ListsTreeBelow ==
    ListsDirectory =>
        /\ ~outcome.result.is_error
        /\ fs = fs0
        /\ IsArray(outcome.result.content)
        /\ ListsBelow(Strings(outcome.result.content))

\* the part of C12 that holds: a directory with entries is listed as
\* claimed, and a directory without entries gives the JSON text null
C12_ExceptEmptyDirectory ==
    ListsDirectory =>
        /\ ~outcome.result.is_error
        /\ fs = fs0
        /\ IF Below = {} THEN outcome.result.content = <<"null">>
           ELSE /\ IsArray(outcome.result.content)
                /\ ListsBelow(Strings(outcome.result.content))
\* a nested tree was listed from a directory given with a trailing separator
C12_NestedListed ==
    /\ ListsDirectory
    /\ Arg("path") = <<"d", "/">>
    /\ Cardinality(Below) = 2
    /\ Strings(outcome.result.content) = << <<"e", "/">>, <<"e", "/", "f">> >>

(***************************************************************************)
(* The roles of the history (specification Spec).                          *)
(***************************************************************************)
RoleAt(i) == IF i % 2 = 1 THEN "user" ELSE "assistant"
Alternates == \A i \in 1..Len(conversation) : conversation[i].role = RoleAt(i)
IsAssistant(turn) == turn.role = "assistant"
\* every request issued so far was answered by one assistant turn, but for
\* the request whose error ended the loop
Answered ==
    requests = Len(SelectSeq(conversation, IsAssistant)) + (IF pc = "error" THEN 1 ELSE 0)

\* C13: in every reachable state the roles of the history alternate,
\* starting with a user turn; every model request is issued with a history
\* whose last turn is a user turn, a typed line or a tool_result turn; and
\* one request is outstanding at a time: a request is issued only when every
\* request before it has been answered, and its answer or its error comes
\* before anything else happens.
C13_RolesAlternate ==
    /\ [](Alternates /\ Answered)
    /\ [][ IssuesRequest =>
              /\ conversation # <<>>
              /\ Last(conversation).role = "user"
              /\ (IsTypedTurn(Last(conversation)) \/ IsResultTurn(Last(conversation)))
              /\ requests = Len(SelectSeq(conversation, IsAssistant))
              /\ (pc' = "error" \/ (conversation' # conversation
                                      /\ IsAssistant(Last(conversation'))))
         ]_vars

C13_Witness ==
    /\ Len(conversation) = 6
    /\ requests = 3
    /\ IsTypedTurn(conversation[3])
    /\ IsResultTurn(conversation[5])
    /\ IsAssistant(conversation[6])

====
